---- MODULE Spec2Model ----
(***************************************************************************)
(* Model of seo_link_analyzer.py: the recursive same-domain crawl          *)
(* (extract_clickable_links_recursive), the link validation pass           *)
(* (check_for_error_links), the sitemap probe (get_sitemap_urls), the      *)
(* metadata extraction (get_meta_data) and the operation that strings them *)
(* together (scan_and_check_links).                                        *)
(*                                                                         *)
(* A URL is the pair of urlparse's netloc and path.  An href is the raw    *)
(* attribute value of an <a> tag: relative (netloc "") or absolute, with   *)
(* or without a "#".  The network is static during one run: every URL has  *)
(* one response (a status code, or a raised requests.RequestException)     *)
(* and one document.  The response and the hrefs of a URL are chosen when  *)
(* the program first asks for them and are remembered in resp and page, so *)
(* that every later request of the same URL sees the same answer.          *)
(***************************************************************************)
EXTENDS Integers, Sequences, FiniteSets, TLC

VARIABLES
    page,             \* the network: URL -> hrefs of its <a href> tags, for the URLs parsed so far
    resp,             \* the network: URL -> response of requests.get, for the URLs requested so far
    limits,           \* the network: how many <a href> tags and failing URLs the site may hold
    url,              \* argument of scan_and_check_links
    max_depth,        \* argument of scan_and_check_links
    pc,               \* position in scan_and_check_links
    stack,            \* call stack of extract_clickable_links_recursive
    visited,          \* the visited set shared by the whole recursion
    clickable_links,  \* result of the top-level extract_clickable_links_recursive
    broken_links,     \* check_for_error_links: the list being built
    check_i,          \* check_for_error_links: number of edges already probed
    sitemap_i,        \* get_sitemap_urls: number of sitemap paths already probed
    all_urls,         \* get_sitemap_urls: the set being built
    results,          \* scan_and_check_links: the insertion-ordered dict, as a sequence of entries
    meta_i,           \* scan_and_check_links: number of link tuples already handled
    returned,         \* return value of scan_and_check_links
    fetches,          \* bookkeeping: requests.get calls made, per pass
    crawl_fetched,    \* bookkeeping: requests.get calls of the traversal, per URL
    meta_calls,       \* bookkeeping: get_meta_data calls, per URL
    doc,              \* input of get_meta_data when it is exercised on its own
    meta              \* result of get_meta_data when it is exercised on its own

netVars == <<page, resp>>
inputVars == <<limits, url, max_depth>>
crawlVars == <<stack, visited, clickable_links, crawl_fetched>>
checkVars == <<broken_links, check_i>>
sitemapVars == <<sitemap_i, all_urls>>
metaVars == <<results, meta_i, meta_calls>>
docVars == <<doc, meta>>
vars == <<page, resp, limits, url, max_depth, pc, stack, visited, clickable_links,
          broken_links, check_i, sitemap_i, all_urls, results, meta_i,
          returned, fetches, crawl_fetched, meta_calls, doc, meta>>

(***************************************************************************)
(* Bounds of the explored inputs.                                          *)
(***************************************************************************)
MaxDepth == 2        \* max_depth ranges over 0..MaxDepth
MaxLinks == 3        \* the pages of the site hold at most this many <a href> tags together
DeepLinks == 4       \* the same, for the sites on which at most DeepDown URLs fail
DeepDown == 1
LiveLinks == 2       \* the same, for the sites on which termination is checked
LiveDown == 1
MaxScripts == 2      \* JSON-LD blocks of a document
MaxItems == 3        \* items of a BreadcrumbList
MaxLis == 2          \* <li> items of an HTML breadcrumb container

(***************************************************************************)
(* URLs, hrefs and responses.                                              *)
(***************************************************************************)
SeedHost == "x.test"
OtherHost == "y.test"

Url(n, p) == [netloc |-> n, path |-> p]
Href(n, p, f) == [netloc |-> n, path |-> p, frag |-> f]

SeedUrl == Url(SeedHost, "/")
Site == {Url(SeedHost, p) : p \in {"/", "/a", "/b", "/c"}}
ExternalUrl == Url(OtherHost, "/a")
AllUrls == Site \cup {ExternalUrl, Url(OtherHost, "/b")}

\* the hrefs a page may hold: an absolute link home, relative links to the
\* other pages, an absolute link to another host, a link with a fragment
Hrefs == {Href(SeedHost, "/", FALSE), Href("", "/a", FALSE), Href("", "/b", FALSE),
          Href("", "/c", FALSE), Href(OtherHost, "/a", FALSE), Href("", "/a", TRUE)}

Response(raised, code) == [raised |-> raised, status_code |-> code]
Responses == {Response(FALSE, 200), Response(FALSE, 404), Response(FALSE, 500),
              Response(TRUE, 0)}

SeqsUpTo(S, n) == UNION {[1..k -> S] : k \in 0..n}

(***************************************************************************)
(* urllib.parse and requests, as far as the program uses them.             *)
(***************************************************************************)
\* urlparse(u).netloc
Netloc(u) == u.netloc

\* urlparse(u).path
PathOf(u) == u.path

\* urljoin(base, link): a link without netloc is resolved against the base
urljoin(base, link) ==
    [netloc |-> IF link.netloc = "" THEN base.netloc ELSE link.netloc,
     path |-> link.path]

\* line 39, line 152, line 195: the request did not raise and the status is 200
Ok(r) == ~r.raised /\ r.status_code = 200

\* the number of URLs known not to answer 200
DownCount == Cardinality({u \in DOMAIN resp : ~Ok(resp[u])})

\* requests.get(u) answers r: the answer the URL gave before, or its first
\* answer, which is remembered
Get(u, r) ==
    /\ r \in Responses
    /\ u \in DOMAIN resp => r = resp[u]
    /\ u \notin DOMAIN resp /\ ~Ok(r) => DownCount < limits.down
    /\ resp' = IF u \in DOMAIN resp THEN resp ELSE (u :> r) @@ resp

\* the number of <a href> tags on the pages of urls
RECURSIVE TagCount(_)
TagCount(urls) ==
    IF urls = {} THEN 0
    ELSE LET u == CHOOSE v \in urls : TRUE
         IN  Len(page[u]) + TagCount(urls \ {u})

\* the pages below the seed, in the order in which the documents of the
\* site first name them: the program compares URLs only for equality, so a
\* site that names them in another order behaves as the renamed site does
PageRank == [p \in {"/a", "/b", "/c"} |-> IF p = "/a" THEN 1 ELSE IF p = "/b" THEN 2 ELSE 3]

\* the pages below the seed that the documents parsed so far link to
Named ==
    {p \in DOMAIN PageRank :
        \E u \in DOMAIN page : \E i \in 1..Len(page[u]) :
            ~page[u][i].frag /\ page[u][i].path = p}

\* hrefs names a page only after all the pages of lower rank
RECURSIVE NamedInOrder(_, _)
NamedInOrder(hrefs, named) ==
    IF hrefs = <<>> THEN TRUE
    ELSE LET link == Head(hrefs)
         IN  IF ~link.frag /\ link.path \in DOMAIN PageRank
             THEN /\ \A p \in DOMAIN PageRank : PageRank[p] < PageRank[link.path] => p \in named
                  /\ NamedInOrder(Tail(hrefs), named \cup {link.path})
             ELSE NamedInOrder(Tail(hrefs), named)

\* the <a href> sequences the document served at u may hold: the one parsed
\* before, or any that keeps the site within its limit
Documentable(u) ==
    IF u \in DOMAIN page THEN {page[u]}
    ELSE {hrefs \in SeqsUpTo(Hrefs, limits.tags - TagCount(DOMAIN page)) :
            NamedInOrder(hrefs, Named)}

\* the document served at u holds the <a href> values hrefs, which are remembered
Anchors(u, hrefs) ==
    /\ hrefs \in Documentable(u)
    /\ page' = IF u \in DOMAIN page THEN page ELSE (u :> hrefs) @@ page

(***************************************************************************)
(* extract_clickable_links_recursive                                       *)
(***************************************************************************)
\* line 29 without the test: every call goes on to fetch
AlreadyVisitedNever(base_url, vis) == FALSE

\* line 29: if base_url in visited
AlreadyVisited(base_url, vis) == base_url \in vis

\* line 32 left out: the URL is not marked
MarkVisitedForgotten(vis, base_url) == vis

\* line 32: visited.add(base_url)
MarkVisited(vis, base_url) == vis \cup {base_url}

\* line 49: if "#" in link: continue
HasFragment(link) == link.frag

\* line 57 without the comparison of the domains
KeepLinkAnyHost(full_link, base_domain, vis) == full_link \notin vis

\* line 57: link_domain == base_domain and full_link not in visited
KeepLink(full_link, base_domain, vis) ==
    Netloc(full_link) = base_domain /\ full_link \notin vis

\* lines 45-59: the edges recorded from the <a href> tags of one page
RECURSIVE ExtractLinks(_, _, _)
ExtractLinks(base_url, hrefs, vis) ==
    IF hrefs = <<>> THEN <<>>
    ELSE LET link == Head(hrefs)
             base_domain == Netloc(base_url)
             rest == ExtractLinks(base_url, Tail(hrefs), vis)
         IN  IF HasFragment(link) THEN rest
             ELSE LET full_link == urljoin(base_url, link)
                  IN  IF KeepLink(full_link, base_domain, vis)
                      THEN <<<<full_link, base_url>>>> \o rest
                      ELSE rest

\* a call of extract_clickable_links_recursive that has not run yet
Frame(base_url, md, depth) ==
    [base_url |-> base_url, max_depth |-> md, depth |-> depth,
     links |-> <<>>, todo |-> <<>>, at |-> "entry"]

Top == stack[Len(stack)]

\* line 62 without the test of max_depth
LoopOverAlways(md, links) == links

\* line 62: if max_depth > 0, the loop runs over links.copy()
LoopOver(md, links) == IF md > 0 THEN links ELSE <<>>

\* `return links`: the caller extends its own list (line 65); the outermost
\* call hands the list to scan_and_check_links (line 198)
ReturnLinks(links) ==
    IF Len(stack) = 1
    THEN /\ stack' = <<>>
         /\ clickable_links' = links
         /\ pc' = "check"
    ELSE /\ stack' = [SubSeq(stack, 1, Len(stack) - 1) EXCEPT
                        ![Len(stack) - 1].links = @ \o links]
         /\ UNCHANGED <<clickable_links, pc>>

\* lines 29-31: the URL was visited before, return the empty list
CrawlSkipVisited ==
    /\ pc = "crawl" /\ stack # <<>> /\ Top.at = "entry"
    /\ AlreadyVisited(Top.base_url, visited)
    /\ ReturnLinks(<<>>)
    /\ UNCHANGED <<visited, crawl_fetched, fetches>>
    /\ UNCHANGED <<netVars, inputVars, checkVars, sitemapVars, metaVars, docVars, returned>>

\* lines 32-41 and 67-70: mark visited, fetch; a status other than 200 or a
\* RequestException returns the empty list
CrawlFetchFailed ==
    /\ pc = "crawl" /\ stack # <<>> /\ Top.at = "entry"
    /\ ~AlreadyVisited(Top.base_url, visited)
    /\ \E r \in Responses : Get(Top.base_url, r) /\ ~Ok(r)
    /\ visited' = MarkVisited(visited, Top.base_url)
    /\ crawl_fetched' = [crawl_fetched EXCEPT ![Top.base_url] = @ + 1]
    /\ fetches' = [fetches EXCEPT !.crawl = @ + 1]
    /\ ReturnLinks(<<>>)
    /\ UNCHANGED <<page, inputVars, checkVars, sitemapVars, metaVars, docVars, returned>>

\* lines 32-62: mark visited, fetch with status 200, record the edges
CrawlExpand ==
    /\ pc = "crawl" /\ stack # <<>> /\ Top.at = "entry"
    /\ ~AlreadyVisited(Top.base_url, visited)
    /\ \E r \in Responses : Get(Top.base_url, r) /\ Ok(r)
    /\ visited' = MarkVisited(visited, Top.base_url)
    /\ crawl_fetched' = [crawl_fetched EXCEPT ![Top.base_url] = @ + 1]
    /\ fetches' = [fetches EXCEPT !.crawl = @ + 1]
    /\ \E hrefs \in Documentable(Top.base_url) :
          /\ Anchors(Top.base_url, hrefs)
          /\ LET links == ExtractLinks(Top.base_url, hrefs, visited')
             IN  stack' = [stack EXCEPT ![Len(stack)] =
                              [@ EXCEPT !.links = links,
                                        !.todo = LoopOver(Top.max_depth, links),
                                        !.at = "loop"]]
    /\ UNCHANGED <<clickable_links, pc>>
    /\ UNCHANGED <<inputVars, checkVars, sitemapVars, metaVars, docVars, returned>>

\* lines 63-64: the next iteration of the loop calls the function on the link
CrawlRecurse ==
    /\ pc = "crawl" /\ stack # <<>> /\ Top.at = "loop" /\ Top.todo # <<>>
    /\ LET internal_link == Head(Top.todo)[1]
       IN  stack' = Append([stack EXCEPT ![Len(stack)].todo = Tail(@)],
                           Frame(internal_link, Top.max_depth - 1, Top.depth + 1))
    /\ UNCHANGED <<visited, clickable_links, crawl_fetched, fetches, pc>>
    /\ UNCHANGED <<netVars, inputVars, checkVars, sitemapVars, metaVars, docVars, returned>>

\* line 70: the loop is over (or was not entered), return links
CrawlReturn ==
    /\ pc = "crawl" /\ stack # <<>> /\ Top.at = "loop" /\ Top.todo = <<>>
    /\ ReturnLinks(Top.links)
    /\ UNCHANGED <<visited, crawl_fetched, fetches>>
    /\ UNCHANGED <<netVars, inputVars, checkVars, sitemapVars, metaVars, docVars, returned>>

(***************************************************************************)
(* get_meta_data                                                           *)
(***************************************************************************)
\* Python's None, as the f-strings print it
None == "None"

\* str(u) of a URL
Str(u) == "http://" \o u.netloc \o u.path

\* " > ".join(parts)
RECURSIVE Join(_, _)
Join(parts, sep) ==
    IF parts = <<>> THEN ""
    ELSE IF Len(parts) = 1 THEN parts[1]
    ELSE parts[1] \o sep \o Join(Tail(parts), sep)

\* line 113: f"{position}: {name} ({url})"
FormatItem(item) ==
    ToString(item.position) \o ": " \o item.name \o " (" \o item.item \o ")"

\* lines 108-113: one entry per item of itemListElement, in list order
RECURSIVE FormatItems(_)
FormatItems(items) ==
    IF items = <<>> THEN <<>>
    ELSE <<FormatItem(Head(items))>> \o FormatItems(Tail(items))

\* lines 103-115: every JSON-LD block; a block that does not parse is skipped
RECURSIVE JsonLdBreadcrumbs(_)
JsonLdBreadcrumbs(scripts) ==
    IF scripts = <<>> THEN <<>>
    ELSE LET script == Head(scripts)
             rest == JsonLdBreadcrumbs(Tail(scripts))
         IN  IF ~script.parses THEN rest
             ELSE IF script.type = "BreadcrumbList"
                  THEN FormatItems(script.itemListElement) \o rest
                  ELSE rest

\* lines 123-132: the <li> items of the breadcrumb container, numbered from 1
RECURSIVE HtmlBreadcrumbs(_, _)
HtmlBreadcrumbs(lis, index) ==
    IF lis = <<>> THEN <<>>
    ELSE LET li == Head(lis)
             breadcrumb_url == IF li.linked THEN li.href ELSE "No URL"
         IN  <<ToString(index) \o ": " \o li.text \o " (" \o breadcrumb_url \o ")">>
                \o HtmlBreadcrumbs(Tail(lis), index + 1)

\* lines 99-136: structured data first, the HTML container only if that gave nothing
Breadcrumbs(d) ==
    LET fromJson == JsonLdBreadcrumbs(d.json_ld)
    IN  IF fromJson # <<>> THEN fromJson
        ELSE IF d.has_container THEN HtmlBreadcrumbs(d.container, 1)
        ELSE <<>>

\* len(s) if s else 0
LengthOf(s) == IF s = None THEN 0 ELSE Len(s)

\* lines 75-139: the tuple returned for a parsed document
ParseMetaData(d) ==
    LET breadcrumbs == Breadcrumbs(d)
    IN  [title |-> d.title,
         title_length |-> LengthOf(d.title),
         meta_description |-> d.meta_description,
         meta_description_length |-> LengthOf(d.meta_description),
         h1_title |-> d.h1,
         canonical_url |-> d.canonical,
         breadcrumbs |-> IF breadcrumbs # <<>> THEN Join(breadcrumbs, " > ") ELSE None]

\* a document: the fields get_meta_data looks for
Document(title, description, json_ld, has_container, container) ==
    [title |-> title, meta_description |-> description, h1 |-> title,
     canonical |-> None, json_ld |-> json_ld,
     has_container |-> has_container, container |-> container]

\* the document served at u during a whole operation
DocumentAt(u) == Document("Page " \o u.path, None, <<>>, FALSE, <<>>)

(***************************************************************************)
(* check_for_error_links                                                   *)
(***************************************************************************)
\* lines 180-188: the status stored in a broken-link tuple, as text
BrokenStatus(r) ==
    IF r.raised THEN "Request error: RequestException"
    ELSE IF r.status_code = 404 THEN ToString(404)
    ELSE ToString(r.status_code)

\* lines 180-188 without the elif branch of line 183
IsBrokenOnly404(r) == r.raised \/ r.status_code = 404

\* lines 180-188: is a tuple appended for this response
IsBroken(r) == r.raised \/ r.status_code = 404 \/ r.status_code # 200

\* lines 177-188: one iteration of the loop over the edges
CheckLink ==
    /\ pc = "check" /\ check_i < Len(clickable_links)
    /\ LET link == clickable_links[check_i + 1][1]
           parent_url == clickable_links[check_i + 1][2]
       IN  \E r \in Responses :
              /\ Get(link, r)
              /\ broken_links' = IF IsBroken(r)
                                 THEN Append(broken_links, <<link, parent_url, BrokenStatus(r)>>)
                                 ELSE broken_links
    /\ check_i' = check_i + 1
    /\ fetches' = [fetches EXCEPT !.check = @ + 1]
    /\ UNCHANGED <<page, inputVars, crawlVars, sitemapVars, metaVars, docVars, pc, returned>>

\* line 190: return broken_links
CheckReturn ==
    /\ pc = "check" /\ check_i = Len(clickable_links)
    /\ pc' = "sitemap"
    /\ UNCHANGED <<netVars, inputVars, crawlVars, checkVars, sitemapVars, metaVars, docVars,
                   returned, fetches>>

(***************************************************************************)
(* get_sitemap_urls                                                        *)
(***************************************************************************)
\* line 144
sitemap_paths == <<"/sitemap.xml", "/en/sitemap.xml", "/es/sitemap.xml">>

\* the answers of the three locations: the first is a sitemap, the second
\* is missing, the request of the third raises
SitemapAnswers == <<Response(FALSE, 200), Response(FALSE, 404), Response(TRUE, 0)>>

\* the <loc> values of the sitemap: a relative one and one on another host
SitemapLocs == {Href("", "/a", FALSE), Href(OtherHost, "/b", FALSE)}

\* lines 148-169: one sitemap location; a status other than 200 and a
\* RequestException both move on to the next location
SitemapProbe ==
    /\ pc = "sitemap" /\ sitemap_i < Len(sitemap_paths)
    /\ LET r == SitemapAnswers[sitemap_i + 1]
       IN  all_urls' = IF Ok(r)
                       THEN all_urls \cup {urljoin(url, loc) : loc \in SitemapLocs}
                       ELSE all_urls
    /\ sitemap_i' = sitemap_i + 1
    /\ fetches' = [fetches EXCEPT !.sitemap = @ + 1]
    /\ UNCHANGED <<netVars, inputVars, crawlVars, checkVars, metaVars, docVars, pc, returned>>

\* line 172: return all_urls
SitemapReturn ==
    /\ pc = "sitemap" /\ sitemap_i = Len(sitemap_paths)
    /\ pc' = "meta_seed"
    /\ UNCHANGED <<netVars, inputVars, crawlVars, checkVars, sitemapVars, metaVars, docVars,
                   returned, fetches>>

(***************************************************************************)
(* scan_and_check_links                                                    *)
(***************************************************************************)
Pending == [kind |-> "pending", message |-> "", report |-> <<>>, broken |-> <<>>]
ErrorString(message) == [kind |-> "error", message |-> message, report |-> <<>>, broken |-> <<>>]
Report(entries, broken) == [kind |-> "report", message |-> "", report |-> entries, broken |-> broken]

\* line 214
sitemap_relative_paths == {PathOf(sitemap_url) : sitemap_url \in all_urls}

\* lines 220-230 and 237-247: the value stored for a URL
Entry(link, m) ==
    [link |-> link, title |-> m.title, title_length |-> m.title_length,
     meta_description |-> m.meta_description,
     meta_description_length |-> m.meta_description_length,
     h1_title |-> m.h1_title, canonical_url |-> m.canonical_url,
     breadcrumbs |-> m.breadcrumbs,
     in_sitemap |-> PathOf(link) \in sitemap_relative_paths]

\* the keys of the dict, in insertion order
Keys(d) == {d[i].link : i \in 1..Len(d)}

\* line 234 without the test: every link tuple is extracted
InResultsNever(link, d) == FALSE

\* line 234: if link not in results
InResults(link, d) == link \in Keys(d)

\* d[key] = value on an insertion-ordered dict: a new key goes last, a known
\* key keeps its place and takes the new value
DictSet(d, key, value) ==
    IF key \in Keys(d)
    THEN [i \in 1..Len(d) |-> IF d[i].link = key THEN value ELSE d[i]]
    ELSE Append(d, value)

\* line 195 without the test of the status code
SeedReachableAnyStatus(r) == ~r.raised

\* line 195: the answer of the seed lets the operation go on
SeedReachable(r) == ~r.raised /\ r.status_code = 200

\* lines 194-196 and 251-252: the seed does not answer 200, or the request raises
ScanSeedDown ==
    /\ pc = "start"
    /\ \E r \in Responses :
          /\ Get(url, r)
          /\ ~SeedReachable(r)
          /\ returned' = IF r.raised THEN ErrorString("Error: RequestException")
                         ELSE ErrorString("Error: Unable to access " \o Str(url))
    /\ fetches' = [fetches EXCEPT !.seed = @ + 1]
    /\ pc' = "done"
    /\ UNCHANGED <<page, inputVars, crawlVars, checkVars, sitemapVars, metaVars, docVars>>

\* lines 194-198: the seed answers 200, the traversal starts with a fresh visited set
ScanSeedUp ==
    /\ pc = "start"
    /\ \E r \in Responses : Get(url, r) /\ SeedReachable(r)
    /\ fetches' = [fetches EXCEPT !.seed = @ + 1]
    /\ stack' = <<Frame(url, max_depth, 0)>>
    /\ visited' = {}
    /\ pc' = "crawl"
    /\ UNCHANGED <<page, inputVars, clickable_links, crawl_fetched, checkVars, sitemapVars,
                   metaVars, docVars, returned>>

\* lines 216-230: the entry of the seed; get_meta_data does not catch a
\* RequestException, the handler of line 251 does
MetaSeed ==
    /\ pc = "meta_seed"
    /\ fetches' = [fetches EXCEPT !.meta = @ + 1]
    /\ meta_calls' = [meta_calls EXCEPT ![url] = @ + 1]
    /\ \E r \in Responses :
          /\ Get(url, r)
          /\ IF r.raised
             THEN /\ returned' = ErrorString("Error: RequestException")
                  /\ pc' = "done"
                  /\ UNCHANGED results
             ELSE /\ results' = DictSet(<<>>, url, Entry(url, ParseMetaData(DocumentAt(url))))
                  /\ pc' = "meta_links"
                  /\ UNCHANGED returned
    /\ UNCHANGED <<page, inputVars, crawlVars, checkVars, sitemapVars, docVars, meta_i>>

\* lines 232-234: the link has an entry already
MetaLinkKnown ==
    /\ pc = "meta_links" /\ meta_i < Len(clickable_links)
    /\ InResults(clickable_links[meta_i + 1][1], results)
    /\ meta_i' = meta_i + 1
    /\ UNCHANGED <<netVars, inputVars, crawlVars, checkVars, sitemapVars, docVars, results,
                   meta_calls, pc, returned, fetches>>

\* lines 235-247: the link has no entry yet and its page is fetched and parsed
MetaLinkNew ==
    /\ pc = "meta_links" /\ meta_i < Len(clickable_links)
    /\ LET link == clickable_links[meta_i + 1][1]
       IN  /\ ~InResults(link, results)
           /\ \E r \in Responses : Get(link, r) /\ ~r.raised
           /\ results' = DictSet(results, link, Entry(link, ParseMetaData(DocumentAt(link))))
           /\ meta_calls' = [meta_calls EXCEPT ![link] = @ + 1]
    /\ fetches' = [fetches EXCEPT !.meta = @ + 1]
    /\ meta_i' = meta_i + 1
    /\ UNCHANGED <<page, inputVars, crawlVars, checkVars, sitemapVars, docVars, pc, returned>>

\* lines 235 and 251-252: requests.get raises inside get_meta_data (line 74),
\* the exception leaves the loop and the operation returns the error string
MetaLinkRaises ==
    /\ pc = "meta_links" /\ meta_i < Len(clickable_links)
    /\ LET link == clickable_links[meta_i + 1][1]
       IN  /\ ~InResults(link, results)
           /\ \E r \in Responses : Get(link, r) /\ r.raised
           /\ meta_calls' = [meta_calls EXCEPT ![link] = @ + 1]
    /\ fetches' = [fetches EXCEPT !.meta = @ + 1]
    /\ returned' = ErrorString("Error: RequestException")
    /\ pc' = "done"
    /\ UNCHANGED <<page, inputVars, crawlVars, checkVars, sitemapVars, docVars, results, meta_i>>

\* line 249: return list(results.values()), broken_links
ScanReturn ==
    /\ pc = "meta_links" /\ meta_i = Len(clickable_links)
    /\ returned' = Report(results, broken_links)
    /\ pc' = "done"
    /\ UNCHANGED <<netVars, inputVars, crawlVars, checkVars, sitemapVars, metaVars, docVars, fetches>>

(***************************************************************************)
(* The operation on a site                                                 *)
(***************************************************************************)
NoMeta == ParseMetaData(DocumentAt(SeedUrl))

\* nothing has run yet, nothing of the network is known
Idle ==
    /\ page = <<>>
    /\ resp = <<>>
    /\ url = SeedUrl
    /\ stack = <<>>
    /\ visited = {}
    /\ clickable_links = <<>>
    /\ broken_links = <<>>
    /\ check_i = 0
    /\ sitemap_i = 0
    /\ all_urls = {}
    /\ results = <<>>
    /\ meta_i = 0
    /\ returned = Pending
    /\ fetches = [seed |-> 0, crawl |-> 0, check |-> 0, sitemap |-> 0, meta |-> 0]
    /\ crawl_fetched = [u \in AllUrls |-> 0]
    /\ meta_calls = [u \in AllUrls |-> 0]
    /\ meta = NoMeta

\* scan_and_check_links(url, max_depth) is called on a site within the limits
Start(tags, down) ==
    /\ Idle
    /\ limits = [tags |-> tags, down |-> down]
    /\ max_depth \in 0..MaxDepth
    /\ pc = "start"
    /\ doc = DocumentAt(SeedUrl)

Next ==
    \/ ScanSeedDown
    \/ ScanSeedUp
    \/ CrawlSkipVisited
    \/ CrawlFetchFailed
    \/ CrawlExpand
    \/ CrawlRecurse
    \/ CrawlReturn
    \/ CheckLink
    \/ CheckReturn
    \/ SitemapProbe
    \/ SitemapReturn
    \/ MetaSeed
    \/ MetaLinkKnown
    \/ MetaLinkNew
    \/ MetaLinkRaises
    \/ ScanReturn

\* any site of at most MaxLinks tags, any number of failing URLs
Init == Start(MaxLinks, Cardinality(AllUrls))
Spec == Init /\ [][Next]_vars

\* larger sites on which at most DeepDown URLs fail
DeepInit == Start(DeepLinks, DeepDown)
DeepSpec == DeepInit /\ [][Next]_vars

\* the operation is a sequential program: it always takes its next step
LiveInit == Start(LiveLinks, LiveDown)
LiveSpec == LiveInit /\ [][Next]_vars /\ WF_vars(Next)

(***************************************************************************)
(* get_meta_data on a document of its own                                  *)
(***************************************************************************)
ListItem(position, name, item) == [position |-> position, name |-> name, item |-> item]
ListItems == {ListItem(1, "A", "urlA"), ListItem(2, "B", "urlB"), ListItem(3, "C", "urlC")}

Script(parses, type, items) == [parses |-> parses, type |-> type, itemListElement |-> items]
Scripts ==
    {Script(FALSE, "", <<>>), Script(TRUE, "WebSite", <<>>)} \cup
    {Script(TRUE, "BreadcrumbList", items) : items \in SeqsUpTo(ListItems, MaxItems)}

Li(linked, text, href) == [linked |-> linked, text |-> text, href |-> href]
Lis == {Li(TRUE, "Home", "http://x/"), Li(FALSE, "Current Page", None)}

Documents ==
    {Document(title, description, json_ld, has_container, container) :
        title \in {None, "Home"}, description \in {None},
        json_ld \in SeqsUpTo(Scripts, MaxScripts),
        has_container \in {TRUE},
        container \in SeqsUpTo(Lis, MaxLis)}
    \cup
    {Document(None, "About", json_ld, FALSE, <<>>) : json_ld \in SeqsUpTo(Scripts, MaxScripts)}

\* get_meta_data is about to parse one of the documents
DocInit ==
    /\ Idle
    /\ limits = [tags |-> 0, down |-> 0]
    /\ max_depth = 0
    /\ pc = "doc"
    /\ doc \in Documents

\* lines 75-139: the document is parsed and the tuple returned
ExtractMeta ==
    /\ pc = "doc"
    /\ meta' = ParseMetaData(doc)
    /\ pc' = "extracted"
    /\ UNCHANGED <<netVars, inputVars, crawlVars, checkVars, sitemapVars, metaVars,
                   doc, returned, fetches>>

DocNext == ExtractMeta

DocSpec == DocInit /\ [][DocNext]_vars

(***************************************************************************)
(* The link graph of the site, as far as its pages have been parsed        *)
(***************************************************************************)
\* the URLs the <a href> tags of u lead to, links with a fragment left out
LinkTargets(u) ==
    IF u \in DOMAIN page
    THEN {urljoin(u, page[u][i]) : i \in {j \in 1..Len(page[u]) : ~page[u][j].frag}}
    ELSE {}

\* the same, on the host of the seed
DirectTargets(u) == {t \in LinkTargets(u) : Netloc(t) = Netloc(url)}

\* the URLs a chain of at most n links leads to from the seed
RECURSIVE ReachWithin(_)
ReachWithin(n) ==
    IF n = 0 THEN {url}
    ELSE LET near == ReachWithin(n - 1)
         IN  near \cup UNION {DirectTargets(u) : u \in near}

Reachable == ReachWithin(Cardinality(AllUrls))

\* the traversal has run and has returned
CrawlEnded == fetches.crawl > 0 /\ stack = <<>>

\* the targets of a sequence of edges
TargetSet(edges) == {edges[i][1] : i \in 1..Len(edges)}

\* every edge the traversal holds, in a pending call or returned
AllEdges ==
    UNION {{stack[i].links[j] : j \in 1..Len(stack[i].links)} : i \in 1..Len(stack)} \cup
    {clickable_links[i] : i \in 1..Len(clickable_links)}

(***************************************************************************)
(* C1: the traversal makes exactly one request per URL of the visited set: *)
(* the number of its requests equals the size of the visited set, and no   *)
(* URL is requested twice, however many pages link to it.                  *)
(***************************************************************************)
FetchedOncePerVisited ==
    /\ fetches.crawl = Cardinality(visited)
    /\ \A u \in AllUrls : crawl_fetched[u] = IF u \in visited THEN 1 ELSE 0

\* a traversal has ended in which two different pages link to one target
SharedTargetCrawled ==
    /\ CrawlEnded
    /\ \E i, j \in 1..Len(clickable_links) :
          /\ clickable_links[i][1] = clickable_links[j][1]
          /\ clickable_links[i][2] # clickable_links[j][2]
          /\ clickable_links[i][1] \in visited

(***************************************************************************)
(* C2: on every site, cyclic ones included, the traversal terminates, and  *)
(* it never makes more requests than there are same-domain URLs reachable  *)
(* from the seed.                                                          *)
(***************************************************************************)
TraversalTerminatesWithinReach ==
    /\ [](fetches.crawl <= Cardinality(Reachable))
    /\ (pc = "crawl") ~> (pc # "crawl")

\* a traversal has ended on a site where two pages link to each other
CycleCrawled ==
    /\ CrawlEnded
    /\ \E u, v \in visited :
          u # v /\ v \in DirectTargets(u) /\ u \in DirectTargets(v)

(***************************************************************************)
(* C3: the target and the parent of every edge, at any depth of the        *)
(* recursion, are on the host of the seed URL.                             *)
(***************************************************************************)
EdgesStayOnSeedHost ==
    \A e \in AllEdges : Netloc(e[1]) = Netloc(url) /\ Netloc(e[2]) = Netloc(url)

\* a traversal has ended that recorded an edge from a page below the seed
\* whose document also links to another host
OffHostLinkBelowSeed ==
    /\ CrawlEnded
    /\ \E i \in 1..Len(clickable_links) :
          LET parent == clickable_links[i][2]
          IN  /\ parent # url
              /\ \E t \in LinkTargets(parent) : Netloc(t) # Netloc(url)

(***************************************************************************)
(* C4, as stated: with max_depth = 0 and a seed that answers 200, the      *)
(* traversal requests only the seed, and the targets of the returned edges *)
(* are exactly the same-domain URLs the seed links to, each with the seed  *)
(* as parent.                                                              *)
(***************************************************************************)
DepthZeroYieldsAllDirectTargets ==
    (CrawlEnded /\ max_depth = 0) =>
        /\ visited = {url} /\ fetches.crawl = 1
        /\ TargetSet(clickable_links) = DirectTargets(url)
        /\ \A i \in 1..Len(clickable_links) : clickable_links[i][2] = url

(***************************************************************************)
(* C4, amended: with max_depth = 0 and a seed that answers 200, the        *)
(* traversal requests only the seed, and the targets of the returned edges *)
(* are exactly the same-domain URLs the seed links to other than the seed  *)
(* itself, each with the seed as parent.                                   *)
(***************************************************************************)
DepthZeroYieldsDirectTargetsButSeed ==
    (CrawlEnded /\ max_depth = 0) =>
        /\ visited = {url} /\ fetches.crawl = 1
        /\ TargetSet(clickable_links) = DirectTargets(url) \ {url}
        /\ \A i \in 1..Len(clickable_links) : clickable_links[i][2] = url

\* a traversal of depth 0 has ended on a seed that links to itself and to
\* two other pages
DepthZeroSeedLinksItself ==
    /\ CrawlEnded /\ max_depth = 0
    /\ url \in DirectTargets(url)
    /\ Cardinality(TargetSet(clickable_links)) = 2

(***************************************************************************)
(* C5: when every page answers 200, the traversal requests every           *)
(* same-domain URL that a chain of at most max_depth links leads to from   *)
(* the seed.                                                               *)
(***************************************************************************)
DepthCoverage ==
    (CrawlEnded /\ \A u \in DOMAIN resp : Ok(resp[u])) =>
        ReachWithin(max_depth) \subseteq visited

(***************************************************************************)
(* C6: check_for_error_links holds one record for every probed edge whose  *)
(* target does not answer 200 and none for the others, in the order of the *)
(* edges, each with the link and the parent of its edge and with the       *)
(* status code (404 included) or the message of the request error.         *)
(***************************************************************************)
StatusOutcome(r) ==
    IF r.raised THEN "Request error: RequestException"
    ELSE IF r.status_code = 404 THEN "404"
    ELSE IF r.status_code = 500 THEN "500"
    ELSE "200"

RECURSIVE BrokenAmong(_)
BrokenAmong(edges) ==
    IF edges = <<>> THEN <<>>
    ELSE LET e == Head(edges)
             r == resp[e[1]]
         IN  IF ~r.raised /\ r.status_code = 200
             THEN BrokenAmong(Tail(edges))
             ELSE <<<<e[1], e[2], StatusOutcome(r)>>>> \o BrokenAmong(Tail(edges))

BrokenRecordsMatchEdges ==
    broken_links = BrokenAmong(SubSeq(clickable_links, 1, check_i))

\* the validation has ended on three edges: one target answers 200, one
\* 404 and one request raised
ValidatedMixedEdges ==
    /\ pc = "sitemap" /\ Len(clickable_links) = 3 /\ Len(broken_links) = 2
    /\ \E i, j \in 1..2 : /\ broken_links[i][3] = "404"
                          /\ broken_links[j][3] = "Request error: RequestException"

(***************************************************************************)
(* C7: whenever the seed answers 200, the operation ends with a report,    *)
(* whatever the other requests answer.                                     *)
(***************************************************************************)
SeedUpGivesReport ==
    (pc = "done" /\ SeedReachable(resp[url])) => returned.kind = "report"

(***************************************************************************)
(* C8: when the first request of the seed does not answer 200 or raises,   *)
(* the operation returns the error string alone: no entry, no edge, no     *)
(* broken-link record, and no request of the traversal, the validation,    *)
(* the sitemap probe or the metadata pass is made.                         *)
(***************************************************************************)
SeedDownGivesOnlyFailure ==
    (url \in DOMAIN resp /\ ~(~resp[url].raised /\ resp[url].status_code = 200)) =>
        /\ pc = "done"
        /\ returned.kind = "error" /\ returned.report = <<>> /\ returned.broken = <<>>
        /\ results = <<>> /\ clickable_links = <<>> /\ broken_links = <<>>
        /\ fetches = [seed |-> 1, crawl |-> 0, check |-> 0, sitemap |-> 0, meta |-> 0]
        /\ \A u \in AllUrls : meta_calls[u] = 0 /\ crawl_fetched[u] = 0

\* the operation has returned after a seed that answered 404
SeedAnswered404 ==
    /\ pc = "done" /\ returned.kind = "error"
    /\ url \in DOMAIN resp /\ ~resp[url].raised /\ resp[url].status_code = 404

(***************************************************************************)
(* C9: a returned report holds one entry per distinct URL among the seed   *)
(* and the edge targets, the seed first and the targets in the order of    *)
(* their first occurrence among the edges; get_meta_data is called at most *)
(* once per URL, and an entry, once written, is never changed.             *)
(***************************************************************************)
RECURSIVE FirstOccurrences(_, _)
FirstOccurrences(urls, seen) ==
    IF urls = <<>> THEN <<>>
    ELSE IF Head(urls) \in seen THEN FirstOccurrences(Tail(urls), seen)
    ELSE <<Head(urls)>> \o FirstOccurrences(Tail(urls), seen \cup {Head(urls)})

ReportedUrls ==
    FirstOccurrences(<<url>> \o [i \in 1..Len(clickable_links) |-> clickable_links[i][1]], {})

OneEntryPerUrl ==
    /\ \A u \in AllUrls : meta_calls[u] <= 1
    /\ returned.kind = "report" =>
          [i \in 1..Len(returned.report) |-> returned.report[i].link] = ReportedUrls

EntriesKept ==
    \A i \in 1..Len(results) : Len(results') >= i /\ results'[i] = results[i]

OneEntryPerUrlNeverRewritten == []OneEntryPerUrl /\ [][EntriesKept]_vars

\* a report has been returned for edges that name one target twice
ReportWithRepeatedTarget ==
    /\ pc = "done" /\ returned.kind = "report"
    /\ \E i, j \in 1..Len(clickable_links) :
          i < j /\ clickable_links[i][1] = clickable_links[j][1]

(***************************************************************************)
(* C10: for a document with one valid BreadcrumbList block, the trail      *)
(* holds one "position: name (url)" entry per item, joined by " > ", in    *)
(* ascending order of the items' positions, whatever the order of the      *)
(* items in the block.                                                     *)
(***************************************************************************)
RECURSIVE InsertByPosition(_, _)
InsertByPosition(item, sorted) ==
    IF sorted = <<>> THEN <<item>>
    ELSE IF item.position < Head(sorted).position THEN <<item>> \o sorted
    ELSE <<Head(sorted)>> \o InsertByPosition(item, Tail(sorted))

RECURSIVE SortByPosition(_)
SortByPosition(items) ==
    IF items = <<>> THEN <<>>
    ELSE InsertByPosition(items[Len(items)], SortByPosition(SubSeq(items, 1, Len(items) - 1)))

EntryOf(item) ==
    ToString(item.position) \o ": " \o item.name \o " (" \o item.item \o ")"

BreadcrumbsFollowPosition ==
    (/\ pc = "extracted"
     /\ Len(doc.json_ld) = 1
     /\ doc.json_ld[1].parses /\ doc.json_ld[1].type = "BreadcrumbList"
     /\ doc.json_ld[1].itemListElement # <<>>)
    => LET sorted == SortByPosition(doc.json_ld[1].itemListElement)
       IN  meta.breadcrumbs = Join([i \in 1..Len(sorted) |-> EntryOf(sorted[i])], " > ")

(***************************************************************************)
(* C11: the edge sequence returned by a crawl holds at most one edge per   *)
(* target URL: neither a second occurrence of a link on the same page nor  *)
(* an occurrence on another page, parsed before the target is fetched,     *)
(* records a further edge.                                                 *)
(***************************************************************************)
OneEdgePerTarget ==
    CrawlEnded =>
        \A i, j \in 1..Len(clickable_links) :
            clickable_links[i][1] = clickable_links[j][1] => i = j

====
